---- MODULE Spec2Model ----
(***************************************************************************)
(* GitDB (src/database.py): CRUD over JSON documents stored in a git       *)
(* repository.  The repository is modelled by its commit history (each     *)
(* commit a tree of blobs), its index and its working directory.           *)
(***************************************************************************)
EXTENDS Naturals, Sequences, FiniteSets

\* ---------------------------------------------------------------- bounds
MaxCommits == 3

Files == {"users.json", "items.json"}
Ids == {"user1", "user2"}
\* Python values handed to the store as record_data; "None" is Python's None.
Values == {"None", "1"}

\* ------------------------------------------------------------ commit refs
\* A commit is named by its position in the history (standing for its sha);
\* HEAD names the latest one; NoSuchCommit is a name no commit ever has.
HEAD == 0
NoSuchCommit == MaxCommits + 1
Refs == {HEAD, NoSuchCommit} \cup (1..MaxCommits)

VARIABLES
  commits,   \* the history: sequence of [tree, message]
  index,     \* the staging area: filename -> blob
  workdir,   \* the working directory: filename -> file text
  last,      \* the last call and what it returned
  accepted   \* how many create/update/delete calls returned True

vars == <<commits, index, workdir, last, accepted>>
repo == <<commits, index, workdir>>

\* ------------------------------------------------------------ python dict
\* A dict is a sequence of <<key, value>> pairs in insertion order.
EmptyDict == <<>>

dict_keys(data) == [i \in DOMAIN data |-> data[i][1]]

KeySet(data) == {data[i][1] : i \in DOMAIN data}

\* data.get(record_id): the value, or None when the key is missing
dict_get(data, record_id) ==
  IF record_id \in KeySet(data)
  THEN data[CHOOSE i \in DOMAIN data : data[i][1] = record_id][2]
  ELSE "None"

\* "if data.get(record_id)" in place of "record_id in data"
dict_contains_truthy(data, record_id) == dict_get(data, record_id) # "None"

\* record_id in data
dict_contains(data, record_id) == record_id \in KeySet(data)

\* data[record_id] = None: the key is stored without its value
dict_set_none(data, record_id, record_data) ==
  IF record_id \in KeySet(data)
  THEN [i \in DOMAIN data |->
          IF data[i][1] = record_id THEN <<record_id, "None">> ELSE data[i]]
  ELSE Append(data, <<record_id, "None">>)

\* data[record_id] = record_data
dict_set(data, record_id, record_data) ==
  IF record_id \in KeySet(data)
  THEN [i \in DOMAIN data |->
          IF data[i][1] = record_id THEN <<record_id, record_data>> ELSE data[i]]
  ELSE Append(data, <<record_id, record_data>>)

\* data.clear() in place of del data[record_id]
dict_del_clear(data, record_id) == EmptyDict

\* del data[record_id]
dict_del(data, record_id) ==
  LET keep(p) == p[1] # record_id IN SelectSeq(data, keep)

\* ------------------------------------------------------------------ json
\* File text: either a JSON object (its members in order, values as JSON
\* tokens) or text that is not JSON.
NotJson == [valid |-> FALSE, members |-> <<>>]

json_encode(v) ==
  CASE v = "None" -> "null"
    [] v = "True" -> "true"
    [] OTHER -> v

json_decode(tok) ==
  CASE tok = "null" -> "None"
    [] tok = "true" -> "True"
    [] OTHER -> tok

json_dump(data) ==
  [valid |-> TRUE,
   members |-> [i \in DOMAIN data |-> <<data[i][1], json_encode(data[i][2])>>]]

\* json.loads: [ok |-> FALSE] stands for the JSONDecodeError it raises
json_loads(text) ==
  IF text.valid
  THEN [ok |-> TRUE,
        value |-> [i \in DOMAIN text.members |->
                     <<text.members[i][1], json_decode(text.members[i][2])>>]]
  ELSE [ok |-> FALSE, value |-> EmptyDict]

\* ------------------------------------------------------------------- git
\* repo.commit(commit): the commit exists (otherwise it raises)
commit_exists(commit) ==
  IF commit = HEAD THEN Len(commits) > 0 ELSE commit \in 1..Len(commits)

commit_obj(commit) ==
  IF commit = HEAD THEN commits[Len(commits)] ELSE commits[commit]

_load_file(filename, commit) ==
  IF ~commit_exists(commit) THEN EmptyDict
  ELSE IF filename \notin DOMAIN commit_obj(commit).tree THEN EmptyDict
  ELSE LET loaded == json_loads(commit_obj(commit).tree[filename]) IN
       IF ~loaded.ok THEN EmptyDict ELSE loaded.value

\* f with filename bound to text (filename added to the domain if new)
Put(f, filename, text) ==
  [x \in DOMAIN f \cup {filename} |-> IF x = filename THEN text ELSE f[x]]

write_file(filename, data) == Put(workdir, filename, json_dump(data))

\* an index rebuilt from the one file instead of updated
index_add_only(filename, wd) == [x \in {filename} |-> wd[filename]]

index_add(filename, wd) == Put(index, filename, wd[filename])

\* "git commit" without --allow-empty: no commit when the tree is unchanged
index_commit_if_changed(idx, commit_message) ==
  IF commits # <<>> /\ commits[Len(commits)].tree = idx
  THEN commits
  ELSE Append(commits, [tree |-> idx, message |-> commit_message])

\* "git commit --amend": the latest commit is replaced
index_commit_amend(idx, commit_message) ==
  IF commits = <<>>
  THEN Append(commits, [tree |-> idx, message |-> commit_message])
  ELSE [commits EXCEPT ![Len(commits)] = [tree |-> idx, message |-> commit_message]]

index_commit(idx, commit_message) ==
  Append(commits, [tree |-> idx, message |-> commit_message])

_save_file(filename, data, commit_message) ==
  /\ workdir' = write_file(filename, data)
  /\ index' = index_add(filename, workdir')
  /\ commits' = index_commit(index', commit_message)

\* ------------------------------------------------------------- the calls
Call(op, filename, record_id, record_data, commit, ret, listing) ==
  [op |-> op, filename |-> filename, record_id |-> record_id,
   record_data |-> record_data, commit |-> commit, ret |-> ret,
   listing |-> listing]

NoCall == Call("open", "", "", "None", HEAD, "None", <<>>)

Returned(call) ==
  /\ last' = call
  /\ accepted' = IF call.ret = "True" THEN accepted + 1 ELSE accepted

\* what read_record returns: data.get(record_id)
read_result(filename, record_id, commit) ==
  dict_get(_load_file(filename, commit), record_id)

\* what list_records returns: list(data.keys())
list_result(filename, commit) == dict_keys(_load_file(filename, commit))

create_record(filename, record_id, record_data) ==
  /\ Len(commits) < MaxCommits
  /\ LET data == _load_file(filename, HEAD) IN
       IF dict_contains(data, record_id)
       THEN /\ UNCHANGED repo
            /\ Returned(Call("create", filename, record_id, record_data, HEAD, "False", <<>>))
       ELSE /\ _save_file(filename, dict_set(data, record_id, record_data),
                          <<"Create record", record_id>>)
            /\ Returned(Call("create", filename, record_id, record_data, HEAD, "True", <<>>))

\* a read that checks the commit out into the working directory first
read_record_checkout(filename, record_id, commit) ==
  /\ workdir' = IF commit_exists(commit) THEN commit_obj(commit).tree ELSE workdir
  /\ UNCHANGED <<commits, index>>
  /\ Returned(Call("read", filename, record_id, "None", commit,
                   read_result(filename, record_id, commit), <<>>))

read_record(filename, record_id, commit) ==
  /\ UNCHANGED repo
  /\ Returned(Call("read", filename, record_id, "None", commit,
                   read_result(filename, record_id, commit), <<>>))

update_record(filename, record_id, record_data) ==
  /\ Len(commits) < MaxCommits
  /\ LET data == _load_file(filename, HEAD) IN
       IF ~dict_contains(data, record_id)
       THEN /\ UNCHANGED repo
            /\ Returned(Call("update", filename, record_id, record_data, HEAD, "False", <<>>))
       ELSE /\ _save_file(filename, dict_set(data, record_id, record_data),
                          <<"Update record", record_id>>)
            /\ Returned(Call("update", filename, record_id, record_data, HEAD, "True", <<>>))

delete_record(filename, record_id) ==
  /\ Len(commits) < MaxCommits
  /\ LET data == _load_file(filename, HEAD) IN
       IF ~dict_contains(data, record_id)
       THEN /\ UNCHANGED repo
            /\ Returned(Call("delete", filename, record_id, "None", HEAD, "False", <<>>))
       ELSE /\ _save_file(filename, dict_del(data, record_id),
                          <<"Delete record", record_id>>)
            /\ Returned(Call("delete", filename, record_id, "None", HEAD, "True", <<>>))

list_records(filename, commit) ==
  /\ UNCHANGED repo
  /\ Returned(Call("list", filename, "", "None", commit, "list",
                   list_result(filename, commit)))

\* ------------------------------------------------------------- GitDB(path)
\* Repo.init on a new path: no commit, nothing staged, no file.
\* Repo(path) on an existing clean repository: one commit made outside the
\* store, whose files may hold text that is not JSON.
EmptyTree == [x \in {} |-> NotJson]

ExistingTrees ==
  {[x \in S |-> NotJson] : S \in (SUBSET Files) \ {{}}}

Init ==
  /\ last = NoCall
  /\ accepted = 0
  /\ \/ /\ commits = <<>>
        /\ index = EmptyTree
        /\ workdir = EmptyTree
     \/ \E t \in ExistingTrees :
          /\ commits = <<[tree |-> t, message |-> <<"external", "">>]>>
          /\ index = t
          /\ workdir = t

Next ==
  \/ \E f \in Files, k \in Ids, v \in Values : create_record(f, k, v)
  \/ \E f \in Files, k \in Ids, c \in Refs : read_record(f, k, c)
  \/ \E f \in Files, k \in Ids, v \in Values : update_record(f, k, v)
  \/ \E f \in Files, k \in Ids : delete_record(f, k)
  \/ \E f \in Files, c \in Refs : list_records(f, c)

Spec == Init /\ [][Next]_vars

\* ================================================================ claims
Mutations == {"create", "update", "delete"}

\* record_id is in the document filename holds at the latest snapshot
Present(filename, record_id) == record_id \in KeySet(_load_file(filename, HEAD))

\* commits that were in the repository when the store opened it
Opened == Cardinality({i \in DOMAIN commits : commits[i].message[1] = "external"})

IsPrefix(s, t) == Len(s) <= Len(t) /\ SubSeq(t, 1, Len(s)) = s

\* C1: every create/update/delete call appends exactly one commit to the
\* history when it returns True and none when it returns False; create is
\* rejected exactly when the id is in the latest snapshot's document, update
\* and delete exactly when it is not; so the history holds one commit per
\* accepted call on top of those it held when the store was opened.
C1_OneSnapshotPerAcceptedMutation ==
  [][last'.op \in Mutations =>
       /\ last'.ret = "True" =>
             /\ Len(commits') = Len(commits) + 1
             /\ IsPrefix(commits, commits')
       /\ last'.ret = "False" => commits' = commits
       /\ last'.ret = "False" <=>
             IF last'.op = "create"
             THEN Present(last'.filename, last'.record_id)
             ELSE ~Present(last'.filename, last'.record_id)
       /\ Len(commits') = Opened' + accepted']_vars

\* C1 witness: three accepted mutations made three commits, the last one an
\* update, in a store that started empty.
C1_Witness ==
  /\ last.op = "update" /\ last.ret = "True"
  /\ accepted = 3 /\ Len(commits) = 3 /\ Opened = 0

\* C2: create_record of an id that is not in the document at the latest
\* snapshot returns True, whatever the value (None included), and a
\* read_record of that id at HEAD right after it returns the value created.
C2_CreateThenRead ==
  [][/\ \A f \in Files, k \in Ids :
          (/\ last'.op = "create" /\ last'.filename = f /\ last'.record_id = k
           /\ ~Present(f, k)) =>
            /\ last'.ret = "True"
            /\ read_result(f, k, HEAD)' = last'.record_data
     /\ (/\ last.op = "create" /\ last.ret = "True"
         /\ last'.op = "read" /\ last'.commit = HEAD
         /\ last'.filename = last.filename /\ last'.record_id = last.record_id) =>
          last'.ret = last.record_data]_vars

\* C2 witness: a read at HEAD of a record whose creation is the latest
\* commit and whose value is not None.
C2_Witness ==
  /\ last.op = "read" /\ last.commit = HEAD /\ last.ret = "1"
  /\ commits # <<>>
  /\ commits[Len(commits)].message = <<"Create record", last.record_id>>

\* C3: reading an id that is absent gives a result that differs from the
\* result of reading an id that is present with the value None.
C3_AbsentDiffersFromNull ==
  \A f \in Files : \A absent \in Ids, empty \in Ids :
    (/\ ~Present(f, absent)
     /\ Present(f, empty)
     /\ dict_get(_load_file(f, HEAD), empty) = "None") =>
      read_result(f, absent, HEAD) # read_result(f, empty, HEAD)

Calls == Mutations \cup {"read", "list"}

\* filename holds text that is not JSON in the snapshot named commit
Corrupt(filename, commit) ==
  /\ commit_exists(commit)
  /\ filename \in DOMAIN commit_obj(commit).tree
  /\ ~commit_obj(commit).tree[filename].valid

\* C4: a call that loads a document whose text at the requested snapshot is
\* not valid JSON returns a serialization error and leaves the repository
\* as it was; a create on it is not accepted and commits nothing.
C4_InvalidJsonSurfaces ==
  [][\A f \in Files, c \in Refs :
       (/\ last'.op \in Calls /\ last'.filename = f /\ last'.commit = c
        /\ Corrupt(f, c)) =>
         /\ last'.ret = "SerializationError"
         /\ UNCHANGED repo]_vars

\* C5: what read_record and list_records return at a snapshot of the history
\* is not changed by any later call.
C5_OldSnapshotsImmutable ==
  [][last'.op \in Mutations =>
       \A s \in 1..Len(commits) : \A f \in Files :
         /\ list_result(f, s)' = list_result(f, s)
         /\ \A k \in Ids : read_result(f, k, s)' = read_result(f, k, s)]_vars

\* C5 witness: a read at an older snapshot returns a value that the latest
\* snapshot no longer holds for that id.
C5_Witness ==
  /\ last.op = "read" /\ last.commit # HEAD
  /\ commit_exists(last.commit) /\ last.commit < Len(commits)
  /\ last.ret = "1"
  /\ read_result(last.filename, last.record_id, HEAD) # "1"

\* C6: list_records at the latest snapshot returns exactly the ids in the
\* document, and these are exactly the ids for which read_record returns a
\* stored value and not the not-found signal (None).
C6_ListMatchesRead ==
  \A f \in Files :
    /\ {list_result(f, HEAD)[i] : i \in DOMAIN list_result(f, HEAD)}
         = KeySet(_load_file(f, HEAD))
    /\ KeySet(_load_file(f, HEAD))
         = {k \in Ids : read_result(f, k, HEAD) # "None"}

\* C7: a create_record of the id that the call right before it created in
\* the same document returns False, leaves history, index and working files
\* unchanged, and read_record of the id still returns the first value.
C7_DuplicateCreateRejected ==
  [][\A f \in Files, k \in Ids :
       (/\ last.op = "create" /\ last.ret = "True"
        /\ last.filename = f /\ last.record_id = k
        /\ last'.op = "create" /\ last'.filename = f /\ last'.record_id = k) =>
         /\ last'.ret = "False"
         /\ UNCHANGED repo
         /\ read_result(f, k, HEAD)' = last.record_data]_vars

\* C7 witness: a rejected create with another value, the accepted create of
\* the id being the only commit of the history.
C7_Witness ==
  /\ last.op = "create" /\ last.ret = "False"
  /\ Len(commits) = 1 /\ Opened = 0
  /\ commits[1].message = <<"Create record", last.record_id>>
  /\ read_result(last.filename, last.record_id, HEAD) # last.record_data

\* C8: read_record and list_records, at any commit name, leave the history,
\* the index and the working files unchanged.
C8_ReadsChangeNothing ==
  [][last'.op \in {"read", "list"} => UNCHANGED repo]_vars

\* C8 witness: a read at an older snapshot in which the file does not exist
\* while the working directory holds it.
C8_Witness ==
  /\ last.op = "read" /\ last.commit # HEAD
  /\ commit_exists(last.commit)
  /\ last.filename \notin DOMAIN commit_obj(last.commit).tree
  /\ last.filename \in DOMAIN workdir

\* C9: delete_record of an id in the document at the latest snapshot returns
\* True; afterwards read_record of it returns None, list_records does not
\* hold it, every other id of the document is there with its value; and a
\* create_record of the id right after the delete returns True.
C9_DeleteRemovesOnlyThatId ==
  [][\A f \in Files, k \in Ids :
       /\ (/\ last'.op = "delete" /\ last'.filename = f /\ last'.record_id = k
            /\ Present(f, k)) =>
             /\ last'.ret = "True"
             /\ read_result(f, k, HEAD)' = "None"
             /\ \A i \in DOMAIN list_result(f, HEAD)' : list_result(f, HEAD)'[i] # k
             /\ \A k2 \in Ids \ {k} :
                  /\ Present(f, k2)' = Present(f, k2)
                  /\ read_result(f, k2, HEAD)' = read_result(f, k2, HEAD)
       /\ (/\ last.op = "delete" /\ last.ret = "True"
            /\ last.filename = f /\ last.record_id = k
            /\ last'.op = "create" /\ last'.filename = f /\ last'.record_id = k) =>
             last'.ret = "True"]_vars

\* C9 witness: an accepted delete that left another record, with a value
\* other than None, in the document.
C9_Witness ==
  /\ last.op = "delete" /\ last.ret = "True"
  /\ \E k2 \in Ids \ {last.record_id} : read_result(last.filename, k2, HEAD) = "1"

HeadTree == commits[Len(commits)].tree

\* C10: an accepted create, update or delete on one file leaves every other
\* file of the previous latest snapshot in the new snapshot with the same
\* content.
C10_OtherFilesUntouched ==
  [][\A f \in Files :
       (/\ last'.op \in Mutations /\ last'.ret = "True" /\ last'.filename = f
        /\ commits # <<>>) =>
         \A g \in (DOMAIN HeadTree) \ {f} :
           /\ g \in DOMAIN HeadTree'
           /\ HeadTree'[g] = HeadTree[g]
           /\ _load_file(g, HEAD)' = _load_file(g, HEAD)]_vars

\* C10 witness: an accepted mutation on one file while the other file holds
\* a record.
C10_Witness ==
  /\ last.op \in Mutations /\ last.ret = "True"
  /\ \E g \in Files \ {last.filename} : KeySet(_load_file(g, HEAD)) # {}

====
